---- MODULE Spec2Model ----
(***************************************************************************)
(* Model of the SMS directions service (src/app.py): the command           *)
(* classifier, the SMS chunker and the handle_sms request pipeline.        *)
(*                                                                         *)
(* A text is a sequence of one-character strings.  A character outside     *)
(* ASCII is written by its code point ("U+2014").                          *)
(***************************************************************************)
EXTENDS Integers, Sequences, FiniteSets, TLC

VARIABLES
    \* ---- split_sms, one run of its loop
    sp_pc,        \* "idle" | "loop" | "done"
    sp_input,     \* the text argument
    sp_max,       \* the max_len argument
    sp_text,      \* the local `text`: what is still to be split
    sp_parts,     \* the local `parts`
    sp_cuts,      \* per iteration: [split_at, hard, before]
    \* ---- get_command_type, one call
    cl_pc,        \* "idle" | "call" | "done"
    cl_word,      \* how the message was built: its first word, lowercase
    cl_tail,      \* how the message was built: what follows the first word
    cl_message,   \* the message argument
    cl_result,    \* the returned (label, mode) pair
    \* ---- handle_sms, one request
    hs_pc,        \* the stage about to run, "idle" or "done"
    hs_body,      \* the Body form field of the request
    hs_command,   \* the locals command and mode
    hs_mode,
    hs_extract,   \* the extract_route call made: the model's answer and the result
    hs_route,     \* the local route: what extract_route returned
    hs_origin,    \* get_directions_steps' locals origin and destination
    hs_destination,
    hs_geo,       \* the is_location_geocodable calls made: argument, outcome, result
    hs_calls,     \* the outbound calls issued, in order
    hs_places,    \* the resolve_place calls made: query, provider's answer, result
    hs_directions, \* the directions call made: the provider's answer
    hs_ret,       \* what get_directions_steps returned
    hs_failed,    \* the stage in which an exception was raised, or ""
    hs_caught,    \* the exception the except clause caught
    hs_escaped,   \* the exception that left handle_sms
    hs_returned,  \* "pending" | "response" | "none" | "raised"
    hs_message,   \* the text given to respond_with_sms
    hs_response,  \* the body of the returned Response
    \* ---- the rendering of one leg by get_directions_steps
    st_pc,        \* "idle" | "call" | "done"
    st_steps,     \* the steps of the first leg of the first route
    st_result     \* what lines 126-151 made of them

sp_vars == <<sp_pc, sp_input, sp_max, sp_text, sp_parts, sp_cuts>>
cl_vars == <<cl_pc, cl_word, cl_tail, cl_message, cl_result>>
hs_vars == <<hs_pc, hs_body, hs_command, hs_mode, hs_extract, hs_route, hs_origin, hs_destination,
             hs_geo, hs_calls, hs_places, hs_directions, hs_ret, hs_failed, hs_caught, hs_escaped, hs_returned,
             hs_message, hs_response>>
st_vars == <<st_pc, st_steps, st_result>>
vars == <<sp_vars, cl_vars, hs_vars, st_vars>>

\* ------------------------------------------------------------------ bounds
MaxTextLen == 5
MaxChunk == 3
MaxSteps == 2

\* ------------------------------------------------------------ text helpers
Max(S) == CHOOSE x \in S : \A y \in S : y <= x
Min2(a, b) == IF a < b THEN a ELSE b

\* The characters str.strip() removes that the model's texts use.
Whitespace == {" ", "\n", "\t", "\r"}

UpperLetters == <<"A","B","C","D","E","F","G","H","I","J","K","L","M",
                  "N","O","P","Q","R","S","T","U","V","W","X","Y","Z">>
LowerLetters == <<"a","b","c","d","e","f","g","h","i","j","k","l","m",
                  "n","o","p","q","r","s","t","u","v","w","x","y","z">>

lower_char(c) ==
    IF \E i \in 1..26 : UpperLetters[i] = c
    THEN LowerLetters[CHOOSE i \in 1..26 : UpperLetters[i] = c]
    ELSE c

upper_char(c) ==
    IF \E i \in 1..26 : LowerLetters[i] = c
    THEN UpperLetters[CHOOSE i \in 1..26 : LowerLetters[i] = c]
    ELSE c

\* str.lower()
lower(s) == [i \in 1..Len(s) |-> lower_char(s[i])]

\* str.strip(): drop the leading and the trailing run of whitespace
strip(s) ==
    LET keep == {i \in 1..Len(s) : s[i] \notin Whitespace}
    IN  IF keep = {} THEN <<>>
        ELSE SubSeq(s, CHOOSE i \in keep : \A j \in keep : i <= j, Max(keep))

\* str.startswith(prefix)
startswith(s, prefix) ==
    /\ Len(s) >= Len(prefix)
    /\ SubSeq(s, 1, Len(prefix)) = prefix

\* "".join(parts)
RECURSIVE concat(_)
concat(parts) ==
    IF parts = <<>> THEN <<>> ELSE Head(parts) \o concat(Tail(parts))

\* All sequences over S of length at most n.
RECURSIVE SeqsUpTo(_, _)
SeqsUpTo(S, n) ==
    IF n = 0 THEN {<<>>}
    ELSE LET shorter == SeqsUpTo(S, n - 1)
         IN  shorter \cup {Append(s, c) : s \in {t \in shorter : Len(t) = n - 1}, c \in S}

\* ------------------------------------------------------- get_command_type
KW_help == <<"h","e","l","p">>
KW_walk == <<"w","a","l","k">>
KW_transit == <<"t","r","a","n","s","i","t">>
KW_drive == <<"d","r","i","v","e">>

L_HELP == <<"H","E","L","P">>
L_WALK == <<"W","A","L","K">>
L_TRANSIT == <<"T","R","A","N","S","I","T">>
L_DRIVE == <<"D","R","I","V","E">>
L_UNKNOWN == <<"U","N","K","N","O","W","N">>
M_walking == <<"w","a","l","k","i","n","g">>
M_transit == <<"t","r","a","n","s","i","t">>
M_driving == <<"d","r","i","v","i","n","g">>

\* Without .lower(): the mutant of get_command_type.
get_command_type_no_lower(message) ==
    LET msg == strip(message)
    IN  IF startswith(msg, KW_help) THEN <<L_HELP, <<>>>>
        ELSE IF startswith(msg, KW_walk) THEN <<L_WALK, M_walking>>
        ELSE IF startswith(msg, KW_transit) THEN <<L_TRANSIT, M_transit>>
        ELSE IF startswith(msg, KW_drive) THEN <<L_DRIVE, M_driving>>
        ELSE <<L_UNKNOWN, <<>>>>

\* Returns (internal label, routing mode).
get_command_type(message) ==
    LET msg == lower(strip(message))
    IN  IF startswith(msg, KW_help) THEN <<L_HELP, <<>>>>
        ELSE IF startswith(msg, KW_walk) THEN <<L_WALK, M_walking>>
        ELSE IF startswith(msg, KW_transit) THEN <<L_TRANSIT, M_transit>>
        ELSE IF startswith(msg, KW_drive) THEN <<L_DRIVE, M_driving>>
        ELSE <<L_UNKNOWN, <<>>>>

\* ---------------------------------------------------------------- split_sms
\* text.rfind("\n", 0, max_len): the highest 0-based index below max_len
\* that holds a newline, or -1.
rfind_newline(text, max_len) ==
    LET hits == {i \in 0..(Min2(max_len, Len(text)) - 1) : text[i + 1] = "\n"}
    IN  IF hits = {} THEN -1 ELSE Max(hits)

\* The hard cut one character too far: the mutant of split_at.
split_at_past_limit(text, max_len) ==
    IF rfind_newline(text, max_len) = -1 THEN max_len + 1
    ELSE rfind_newline(text, max_len)

\* The cut position of one loop iteration.
split_at(text, max_len) ==
    IF rfind_newline(text, max_len) = -1 THEN max_len
    ELSE rfind_newline(text, max_len)

\* The remainder taken one character after the cut: the mutant of split_rest.
split_rest_skip_one(text, max_len) ==
    strip(SubSeq(text, split_at(text, max_len) + 2, Len(text)))

\* The remainder kept untrimmed: another mutant of split_rest.
split_rest_no_strip(text, max_len) ==
    SubSeq(text, split_at(text, max_len) + 1, Len(text))

\* parts.append(text[:split_at].strip())
split_part(text, max_len) == strip(SubSeq(text, 1, split_at(text, max_len)))

\* text = text[split_at:].strip()
split_rest(text, max_len) ==
    strip(SubSeq(text, split_at(text, max_len) + 1, Len(text)))

RECURSIVE split_sms(_, _)
split_sms(text, max_len) ==
    IF Len(text) > max_len
    THEN <<split_part(text, max_len)>> \o split_sms(split_rest(text, max_len), max_len)
    ELSE <<text>>

\* ------------------------------------------------------------ fixed texts
REJECTION_TEXT == <<"S","o","r","r","y"," ","U+2014"," ","w","e"," ","c","a","n","U+2019","t"," ","u","s","e"," ","v","a","g","u","e"," ","l","o","c","a","t","i","o","n","s"," ","l","i","k","e"," ","U+201C","m","y"," ","l","o","c","a","t","i","o","n","U+201D"," ","o","r"," ","U+201C","n","e","a","r"," ","m","e","U+201D"," ","b","e","c","a","u","s","e"," ","t","h","i","s"," ","s","e","r","v","i","c","e"," ","d","o","e","s"," ","n","o","t"," ","u","s","e"," ","G","P","S"," ","o","r"," ","r","e","a","l","-","t","i","m","e"," ","t","r","a","c","k","i","n","g","."," ","P","l","e","a","s","e"," ","u","s","e"," ","s","p","e","c","i","f","i","c"," ","a","d","d","r","e","s","s","e","s"," ","o","r"," ","l","o","c","a","t","i","o","n"," ","n","a","m","e","s",".">>
UNRECOGNIZED_TEXT == <<"U","n","r","e","c","o","g","n","i","z","e","d"," ","c","o","m","m","a","n","d","."," ","T","y","p","e"," ","'","H","E","L","P","'"," ","f","o","r"," ","i","n","s","t","r","u","c","t","i","o","n","s",".">>
PARSE_ERROR_TEXT == <<"L","L","M"," ","r","e","s","p","o","n","s","e"," ","c","o","u","l","d"," ","n","o","t"," ","b","e"," ","p","a","r","s","e","d"," ","a","s"," ","J","S","O","N",".">>
RESOLVE_ERROR_PREFIX == <<"C","o","u","l","d"," ","n","o","t"," ","r","e","s","o","l","v","e"," ","p","l","a","c","e",":"," ">>
NO_ROUTE_TEXT == <<"N","o"," ","r","o","u","t","e"," ","f","o","u","n","d",".">>
ERROR_PREFIX == <<"E","r","r","o","r",":"," ">>
T_From == <<"F","r","o","m",":"," ">>
T_To == <<"T","o",":"," ">>
T_Mode == <<"M","o","d","e",":"," ">>
T_Duration == <<"D","u","r","a","t","i","o","n",":"," ">>
T_Take == <<"."," ","T","a","k","e"," ">>
T_from == <<" ","f","r","o","m"," ">>
T_to == <<" ","t","o"," ">>
T_Transit == <<"T","r","a","n","s","i","t">>
T_UnknownLine == <<"U","n","k","n","o","w","n"," ","l","i","n","e">>
X_Response == <<"<","R","e","s","p","o","n","s","e",">">>
X_ResponseEnd == <<"<","/","R","e","s","p","o","n","s","e",">">>
X_Message == <<"<","M","e","s","s","a","g","e",">">>
X_MessageEnd == <<"<","/","M","e","s","s","a","g","e",">">>

\* ------------------------------------------------------------- exceptions
\* An exception is its class and its str().  NoExc: nothing was raised.
NoExc == [type |-> "", text |-> <<>>]
Exc(type, text) == [type |-> type, text |-> text]

\* The classes an exception of the given class is an instance of.
Bases(type) ==
    CASE type = "ValueError" -> {"ValueError", "Exception"}
      [] type = "JSONDecodeError" -> {"JSONDecodeError", "ValueError", "Exception"}
      [] type = "RequestsJSONDecodeError" ->
             {"RequestsJSONDecodeError", "JSONDecodeError", "ValueError",
              "RequestException", "OSError", "Exception"}
      [] type = "KeyError" -> {"KeyError", "LookupError", "Exception"}
      [] type = "IndexError" -> {"IndexError", "LookupError", "Exception"}
      [] type = "TypeError" -> {"TypeError", "Exception"}
      [] type = "AttributeError" -> {"AttributeError", "Exception"}
      [] type = "APITimeoutError" ->
             {"APITimeoutError", "APIConnectionError", "APIError", "OpenAIError", "Exception"}
      [] type = "APIConnectionError" ->
             {"APIConnectionError", "APIError", "OpenAIError", "Exception"}
      [] type = "Timeout" -> {"Timeout", "RequestException", "OSError", "Exception"}
      [] type = "ConnectionError" ->
             {"ConnectionError", "RequestException", "OSError", "Exception"}
      [] OTHER -> {}

isinstance(exc, classes) == Bases(exc.type) \cap classes # {}

\* The characters of a key that the model's objects may lack.
KeyText(k) ==
    CASE k = "origin" -> <<"o","r","i","g","i","n">>
      [] k = "destination" -> <<"d","e","s","t","i","n","a","t","i","o","n">>
      [] k = "displayName" -> <<"d","i","s","p","l","a","y","N","a","m","e">>
      [] k = "location" -> <<"l","o","c","a","t","i","o","n">>
      [] k = "legs" -> <<"l","e","g","s">>
      [] k = "duration" -> <<"d","u","r","a","t","i","o","n">>
      [] k = "steps" -> <<"s","t","e","p","s">>
      [] k = "distance" -> <<"d","i","s","t","a","n","c","e">>

\* KeyError(k): its str() is repr(k).
KeyError(k) == Exc("KeyError", <<"'">> \o KeyText(k) \o <<"'">>)

\* The result of evaluating an expression: a value, or an exception raised.
Ok(v) == [raised |-> NoExc, value |-> v]
Raise(exc) == [raised |-> exc, value |-> <<>>]

\* -------------------------------------------------------------------- JSON
\* A parsed JSON document: its type and, for an object, its members (a
\* function from keys).  Objects nested in a document are plain functions.
JsonObject(members) == [type |-> "object", members |-> members]
JsonOther(type) == [type |-> type, members |-> <<>>]

\* dict.get(key, default)
get(obj, key, default) == IF key \in DOMAIN obj THEN obj[key] ELSE default

\* value[key] for a string key
subscript(doc, key) ==
    IF doc.type = "object"
    THEN IF key \in DOMAIN doc.members THEN Ok(doc.members[key]) ELSE Raise(KeyError(key))
    ELSE Raise(Exc("TypeError", <<>>))

\* What a response text is to json.loads: None in place of a text, a text
\* that is no JSON document, or the text of the document `value`.
ContentNone == [kind |-> "none", text |-> <<>>, value |-> JsonOther("null")]
ContentText(text) == [kind |-> "text", text |-> text, value |-> JsonOther("null")]
ContentJson(value) == [kind |-> "json", text |-> <<>>, value |-> value]

json_loads(content) ==
    CASE content.kind = "json" -> Ok(content.value)
      [] content.kind = "text" -> Raise(Exc("JSONDecodeError", <<>>))
      [] content.kind = "none" -> Raise(Exc("TypeError", <<>>))

\* ------------------------------------------------- the language-model call
\* client.chat.completions.create(...): it raises, or answers with the
\* content of the first choice.
LlmRaises(exc) == [raised |-> exc, content |-> ContentNone]
LlmAnswers(content) == [raised |-> NoExc, content |-> content]

LlmFailures == { LlmRaises(Exc("APITimeoutError", <<>>)),
                 LlmRaises(Exc("APIConnectionError", <<>>)) }

\* ------------------------------------------------------------ extract_route
\* try: return json.loads(content) / except json.JSONDecodeError: raise ValueError
extract_route_parse(content) ==
    LET r == json_loads(content)
    IN  IF r.raised # NoExc /\ isinstance(r.raised, {"JSONDecodeError"})
        THEN Raise(Exc("ValueError", PARSE_ERROR_TEXT))
        ELSE r

\* The call is made outside the try block: what it raises leaves extract_route.
extract_route(llm) ==
    IF llm.raised # NoExc THEN Raise(llm.raised)
    ELSE extract_route_parse(llm.content)

\* --------------------------------------------------- is_location_geocodable
\* The body of the try block: the call, then content.strip().lower().startswith("y")
geocodable_try(llm) ==
    IF llm.raised # NoExc THEN Raise(llm.raised)
    ELSE IF llm.content.kind = "none" THEN Raise(Exc("AttributeError", <<>>))
    ELSE Ok(startswith(lower(strip(llm.content.text)), <<"y">>))

\* Answers True when the call fails: the mutant of is_location_geocodable.
is_location_geocodable_fail_open(llm) ==
    LET r == geocodable_try(llm)
    IN  IF r.raised # NoExc /\ isinstance(r.raised, {"Exception"}) THEN Ok(TRUE) ELSE r

\* except Exception: return False
is_location_geocodable(llm) ==
    LET r == geocodable_try(llm)
    IN  IF r.raised # NoExc /\ isinstance(r.raised, {"Exception"}) THEN Ok(FALSE) ELSE r

\* ------------------------------------------------------------ resolve_place
\* An optional number: None, or a value.
None == [some |-> FALSE, v |-> 0]
Some(x) == [some |-> TRUE, v |-> x]

\* A requests call: it raises, or answers with a body for response.json().
HttpRaises(exc) == [raised |-> exc, content |-> ContentNone]
HttpAnswers(content) == [raised |-> NoExc, content |-> content]

\* response.json(): requests raises its own JSONDecodeError.
response_json(content) ==
    IF content.kind = "json" THEN Ok(content.value)
    ELSE Raise(Exc("RequestsJSONDecodeError",
                   <<"E","x","p","e","c","t","i","n","g"," ","v","a","l","u","e",":"," ",
                     "l","i","n","e"," ","1"," ","c","o","l","u","m","n"," ","1"," ",
                     "(","c","h","a","r"," ","0",")">>))

\* The timeout, in seconds, given to requests.post and requests.get.
HTTP_TIMEOUT == 5
\* The radius, in metres, of the bias circle.
BIAS_RADIUS == 5000

places_request_truthy(query, lat, lng) ==
    [api |-> "places", query |-> query, timeout |-> Some(HTTP_TIMEOUT),
     bias |-> IF lat.some /\ lng.some /\ lat.v # 0 /\ lng.v # 0
              THEN [present |-> TRUE, latitude |-> lat.v, longitude |-> lng.v,
                    radius |-> BIAS_RADIUS]
              ELSE [present |-> FALSE, latitude |-> 0, longitude |-> 0, radius |-> 0]]

\* The request issued at line 75: the text query, the bias circle when both
\* lat and lng are given, and the timeout.
places_request(query, lat, lng) ==
    [api |-> "places", query |-> query, timeout |-> Some(HTTP_TIMEOUT),
     bias |-> IF lat.some /\ lng.some
              THEN [present |-> TRUE, latitude |-> lat.v, longitude |-> lng.v,
                    radius |-> BIAS_RADIUS]
              ELSE [present |-> FALSE, latitude |-> 0, longitude |-> 0, radius |-> 0]]

\* Lines 76-86: from the provider's answer to the place, or the exception.
resolve_place(query, http) ==
    IF http.raised # NoExc THEN Raise(http.raised)
    ELSE LET d == response_json(http.content)
         IN  IF d.raised # NoExc THEN Raise(d.raised)
             ELSE IF d.value.type # "object" THEN Raise(Exc("TypeError", <<>>))
             ELSE LET data == d.value.members
                  IN  IF "places" \notin DOMAIN data \/ data.places = <<>>
                      THEN Raise(Exc("ValueError", RESOLVE_ERROR_PREFIX \o query))
                      ELSE LET place == data.places[1]
                           IN  IF "displayName" \notin DOMAIN place
                               THEN Raise(KeyError("displayName"))
                               ELSE IF "location" \notin DOMAIN place
                               THEN Raise(KeyError("location"))
                               ELSE Ok([name |-> place.displayName.text,
                                        lat |-> place.location.latitude,
                                        lng |-> place.location.longitude])

\* ------------------------------------------------------------ idle parts
ClassifyIdle ==
    /\ cl_pc = "idle"
    /\ cl_word = <<>>
    /\ cl_tail = <<>>
    /\ cl_message = <<>>
    /\ cl_result = <<>>

SplitIdle ==
    /\ sp_pc = "idle"
    /\ sp_input = <<>>
    /\ sp_max = 0
    /\ sp_text = <<>>
    /\ sp_parts = <<>>
    /\ sp_cuts = <<>>

StepsIdle ==
    /\ st_pc = "idle"
    /\ st_steps = <<>>
    /\ st_result = <<>>

\* ----------------------------------------------------- get_directions_steps
Digits == <<"0","1","2","3","4","5","6","7","8","9">>

\* str(n) for a natural number
RECURSIVE nat_text(_)
nat_text(n) ==
    IF n < 10 THEN <<Digits[n + 1]>>
    ELSE nat_text(n \div 10) \o <<Digits[(n % 10) + 1]>>

\* str(n) for a coordinate (the model's coordinates are whole numbers)
num_text(n) == IF n < 0 THEN <<"-">> \o nat_text(-n) ELSE nat_text(n)

\* f"{lat},{lng}"
latlng_text(place) == num_text(place.lat) \o <<",">> \o num_text(place.lng)

\* The directions request of line 125: its query parameters and its timeout.
directions_request(origin, destination, mode) ==
    [api |-> "directions", origin |-> latlng_text(origin),
     destination |-> latlng_text(destination), mode |-> mode,
     departure_time |-> <<"n","o","w">>, timeout |-> Some(HTTP_TIMEOUT)]

\* re.sub(r"<.*?>", "", s): the end of the tag that opens at s[1], or 0.
tag_end(s) ==
    LET closes == {j \in 2..Len(s) : s[j] = ">" /\ \A k \in 2..(j - 1) : s[k] # "\n"}
    IN  IF closes = {} THEN 0 ELSE CHOOSE j \in closes : \A k \in closes : j <= k

RECURSIVE strip_tags(_)
strip_tags(s) ==
    IF s = <<>> THEN <<>>
    ELSE IF Head(s) = "<" /\ tag_end(s) > 0
    THEN strip_tags(SubSeq(s, tag_end(s) + 1, Len(s)))
    ELSE <<Head(s)>> \o strip_tags(Tail(s))

is_lower(c) == \E i \in 1..26 : LowerLetters[i] = c
is_upper(c) == \E i \in 1..26 : UpperLetters[i] = c

\* re.sub(r"([a-z])([A-Z])", r"\1. \2", s)
RECURSIVE camel_break(_)
camel_break(s) ==
    IF Len(s) < 2 THEN s
    ELSE IF is_lower(s[1]) /\ is_upper(s[2])
    THEN <<s[1], ".", " ">> \o camel_break(Tail(s))
    ELSE <<s[1]>> \o camel_break(Tail(s))

step_line_long_name_first(idx, step) ==
    LET transit == get(step, "transit_details", <<>>)
    IN  IF transit # <<>>
        THEN LET line == get(transit, "line", <<>>)
                 vehicle == get(get(line, "vehicle", <<>>), "type", T_Transit)
                 short_name ==
                     IF get(line, "name", <<>>) # <<>> THEN line.name
                     ELSE IF get(line, "short_name", <<>>) # <<>> THEN line.short_name
                     ELSE T_UnknownLine
                 departure == get(get(transit, "departure_stop", <<>>), "name", <<>>)
                 arrival == get(get(transit, "arrival_stop", <<>>), "name", <<>>)
             IN  Ok(nat_text(idx) \o T_Take \o vehicle \o <<" ">> \o short_name
                    \o T_from \o departure \o T_to \o arrival)
        ELSE LET text == camel_break(strip_tags(get(step, "html_instructions", <<>>)))
             IN  IF "distance" \notin DOMAIN step THEN Raise(KeyError("distance"))
                 ELSE Ok(nat_text(idx) \o <<".", " ">> \o text \o <<" ", "(">>
                         \o step.distance.text \o <<")">>)

\* Lines 135-149: the instruction line of one step, or the exception.
step_line(idx, step) ==
    LET transit == get(step, "transit_details", <<>>)
    IN  IF transit # <<>>
        THEN LET line == get(transit, "line", <<>>)
                 vehicle == get(get(line, "vehicle", <<>>), "type", T_Transit)
                 short_name ==
                     IF get(line, "short_name", <<>>) # <<>> THEN line.short_name
                     ELSE IF get(line, "name", <<>>) # <<>> THEN line.name
                     ELSE T_UnknownLine
                 departure == get(get(transit, "departure_stop", <<>>), "name", <<>>)
                 arrival == get(get(transit, "arrival_stop", <<>>), "name", <<>>)
             IN  Ok(nat_text(idx) \o T_Take \o vehicle \o <<" ">> \o short_name
                    \o T_from \o departure \o T_to \o arrival)
        ELSE LET text == camel_break(strip_tags(get(step, "html_instructions", <<>>)))
             IN  IF "distance" \notin DOMAIN step THEN Raise(KeyError("distance"))
                 ELSE Ok(nat_text(idx) \o <<".", " ">> \o text \o <<" ", "(">>
                         \o step.distance.text \o <<")">>)

\* The loop of lines 133-149: the list `instructions`, or the first exception.
RECURSIVE step_lines(_, _)
step_lines_first_only(steps, idx) ==
    IF idx > Len(steps) THEN Ok(<<>>)
    ELSE LET first == step_line(idx, steps[idx])
         IN  IF first.raised # NoExc THEN first ELSE Ok(<<first.value>>)

step_lines(steps, idx) ==
    IF idx > Len(steps) THEN Ok(<<>>)
    ELSE LET first == step_line(idx, steps[idx])
         IN  IF first.raised # NoExc THEN first
             ELSE LET rest == step_lines(steps, idx + 1)
                  IN  IF rest.raised # NoExc THEN rest
                      ELSE Ok(<<first.value>> \o rest.value)

\* "\n".join(lines)
RECURSIVE join_lines(_)
join_lines(lines) ==
    IF lines = <<>> THEN <<>>
    ELSE IF Len(lines) = 1 THEN lines[1]
    ELSE lines[1] \o <<"\n">> \o join_lines(Tail(lines))

\* What get_directions_steps returns: a str, or a (duration, steps) tuple.
ReturnStr(text) == [kind |-> "str", items |-> text]
ReturnTuple(duration, steps) == [kind |-> "tuple", items |-> <<duration, steps>>]
NoReturn == [kind |-> "", items |-> <<>>]

\* Lines 125-151: from the provider's answer to the returned value.
directions_result(http) ==
    IF http.raised # NoExc THEN Raise(http.raised)
    ELSE LET d == response_json(http.content)
         IN  IF d.raised # NoExc THEN Raise(d.raised)
             ELSE IF d.value.type # "object" THEN Raise(Exc("AttributeError", <<>>))
             ELSE LET data == d.value.members
                  IN  IF get(data, "routes", <<>>) = <<>> THEN Ok(ReturnStr(NO_ROUTE_TEXT))
                      ELSE LET route == data.routes[1]
                           IN  IF "legs" \notin DOMAIN route THEN Raise(KeyError("legs"))
                               ELSE IF route.legs = <<>> THEN Raise(Exc("IndexError", <<>>))
                               ELSE IF "duration" \notin DOMAIN route.legs[1]
                               THEN Raise(KeyError("duration"))
                               ELSE IF "steps" \notin DOMAIN route.legs[1]
                               THEN Raise(KeyError("steps"))
                               ELSE LET lines == step_lines(route.legs[1].steps, 1)
                                    IN  IF lines.raised # NoExc THEN lines
                                        ELSE Ok(ReturnTuple(route.legs[1].duration.text,
                                                            join_lines(lines.value)))

\* `duration, steps = <returned value>`: a str unpacks into its characters.
unpack2(ret, too_many_text) ==
    IF ret.kind = "tuple" THEN Ok(ret.items)
    ELSE IF Len(ret.items) = 2 THEN Ok(<<<<ret.items[1]>>, <<ret.items[2]>>>>)
    ELSE IF Len(ret.items) > 2 THEN Raise(Exc("ValueError", too_many_text))
    ELSE Raise(Exc("ValueError", <<"n","o","t"," ","e","n","o","u","g","h"," ",
                                   "v","a","l","u","e","s"," ","t","o"," ",
                                   "u","n","p","a","c","k"," ","(","e","x","p","e","c","t","e","d",
                                   " ","2",","," ","g","o","t"," ">>
                                 \o nat_text(Len(ret.items)) \o <<")">>))

\* str() of the "too many values" ValueError differs between interpreters.
TooManyValuesTexts ==
    { <<"t","o","o"," ","m","a","n","y"," ","v","a","l","u","e","s"," ","t","o"," ","u","n","p","a","c","k"," ","(","e","x","p","e","c","t","e","d"," ","2",")">>,
      <<"t","o","o"," ","m","a","n","y"," ","v","a","l","u","e","s"," ","t","o"," ","u","n","p","a","c","k"," ","(","e","x","p","e","c","t","e","d"," ","2",","," ","g","o","t"," ","1","5",")">> }

\* ---------------------------------------------------------- respond_with_sms
SMS_MAX_LEN == 1600

RECURSIVE message_elements(_)
message_elements(chunks) ==
    IF chunks = <<>> THEN <<>>
    ELSE X_Message \o Head(chunks) \o X_MessageEnd \o message_elements(Tail(chunks))

\* The body of the TwiML response.
respond_with_sms(text) ==
    X_Response \o message_elements(split_sms(text, SMS_MAX_LEN)) \o X_ResponseEnd

\* ------------------------------------------------------------------ handle_sms
\* Lines 207-213: the itinerary.
itinerary(route, command, duration, steps) ==
    T_From \o route.origin \o <<"\n">>
    \o T_To \o route.destination \o <<"\n">>
    \o T_Mode \o command \o <<"\n">>
    \o T_Duration \o duration \o <<"\n", "\n">>
    \o steps

\* How a stage of handle_sms ends.
Continue(next) ==
    [pc |-> next, returned |-> "pending", message |-> <<>>, caught |-> NoExc, escaped |-> NoExc]
Reply(message) ==
    [pc |-> "done", returned |-> "response", message |-> message, caught |-> NoExc, escaped |-> NoExc]
ReturnNone ==
    [pc |-> "done", returned |-> "none", message |-> <<>>, caught |-> NoExc, escaped |-> NoExc]

\* Runs the stage again when an exception is not caught: the mutant of Raised.
Raised_retry(exc) ==
    IF isinstance(exc, {"ValueError", "KeyError"})
    THEN [pc |-> "done", returned |-> "response", message |-> ERROR_PREFIX \o exc.text,
          caught |-> exc, escaped |-> NoExc]
    ELSE [pc |-> hs_pc, returned |-> "pending", message |-> <<>>,
          caught |-> NoExc, escaped |-> NoExc]

\* An exception raised in the try block: except (ValueError, KeyError)
\* turns it into the error message; any other leaves handle_sms.
Raised(exc) ==
    IF isinstance(exc, {"ValueError", "KeyError"})
    THEN [pc |-> "done", returned |-> "response", message |-> ERROR_PREFIX \o exc.text,
          caught |-> exc, escaped |-> NoExc]
    ELSE [pc |-> "done", returned |-> "raised", message |-> <<>>,
          caught |-> NoExc, escaped |-> exc]

\* Rejects on the destination's verdict only: the mutant of after_geocodable.
after_geocodable_destination_only(key, accepted, next) ==
    IF ~accepted /\ key = "destination" THEN Reply(REJECTION_TEXT) ELSE Continue(next)

\* Lines 201-204: a place the oracle does not accept ends the request with
\* the rejection text.
after_geocodable(key, accepted, next) ==
    IF ~accepted THEN Reply(REJECTION_TEXT) ELSE Continue(next)

End(o) ==
    /\ hs_pc' = o.pc
    /\ hs_returned' = o.returned
    /\ hs_message' = o.message
    /\ hs_response' = IF o.returned = "response" THEN respond_with_sms(o.message) ELSE <<>>
    /\ hs_caught' = o.caught
    /\ hs_escaped' = o.escaped
    /\ hs_failed' = IF o.caught # NoExc \/ o.escaped # NoExc THEN hs_pc ELSE hs_failed

\* ---- what the outside world may send
RequestBodies ==
    { <<"h","e","l","p">>, <<" ","H","e","l","p"," ","m","e","\n">>,
      <<"w","a","l","k"," ","f","r","o","m"," ","A"," ","t","o"," ","B">>,
      <<" ","T","R","A","N","S","I","T"," ","x">>, <<"D","r","i","v","e">>,
      <<>>, <<"f","l","y"," ","t","o"," ","M","a","r","s">> }

PlaceNames == { <<"T","i","m","e","s"," ","S","q">>, <<"B","&","B">> }

RouteObjects == UNION { [keys -> PlaceNames] : keys \in SUBSET {"origin", "destination"} }

ExtractOutcomes ==
    LlmFailures
    \cup { LlmAnswers(ContentNone),
           LlmAnswers(ContentText(<<"I"," ","c","a","n","n","o","t">>)) }
    \cup { LlmAnswers(ContentJson(JsonOther(t))) : t \in {"null", "array", "string", "number"} }
    \cup { LlmAnswers(ContentJson(JsonObject(o))) : o \in RouteObjects }

GeocodableOutcomes ==
    LlmFailures
    \cup { LlmAnswers(ContentNone) }
    \cup { LlmAnswers(ContentText(t)) :
             t \in { <<"y","e","s">>, <<" ","Y","e","s",".","\n">>, <<"n","o">>, <<"N","o",".">>,
                     <<>>, <<"m","a","y","b","e">>,
                     <<"n","o","t"," ","s","u","r","e",","," ","y","e","s","?">> } }

HttpFailures == { HttpRaises(Exc("Timeout", <<>>)), HttpRaises(Exc("ConnectionError", <<>>)) }

Candidate(name, lat, lng) ==
    [displayName |-> [text |-> name], location |-> [latitude |-> lat, longitude |-> lng]]
C_TimesSq == Candidate(<<"T","i","m","e","s"," ","S","q","u","a","r","e">>, 40, -74)
C_Null == Candidate(<<"N","u","l","l"," ","<","I","s","l","a","n","d",">">>, 0, 0)

PlacesOutcomes ==
    HttpFailures
    \cup { HttpAnswers(ContentText(<<"<","h","t","m","l",">">>)) }
    \cup { HttpAnswers(ContentJson(JsonObject(d))) :
             d \in { <<>>, [places |-> <<>>],
                     [places |-> <<C_TimesSq>>], [places |-> <<C_Null, C_TimesSq>>],
                     [places |-> <<[location |-> [latitude |-> 40, longitude |-> -74]]>>],
                     [places |-> <<[displayName |-> [text |-> <<"X">>]]>>] } }

S_turn == [html_instructions |-> <<"T","u","r","n"," ","<","b",">","l","e","f","t","<","/","b",">">>,
           distance |-> [text |-> <<"5"," ","m">>]]
S_camel == [html_instructions |-> <<"N","o","r","t","h","T","o","l","l">>,
            distance |-> [text |-> <<"1"," ","k","m">>]]
S_bus == [html_instructions |-> <<"B","u","s">>, distance |-> [text |-> <<"2"," ","k","m">>],
          transit_details |->
              [line |-> [vehicle |-> [type |-> <<"B","U","S">>], short_name |-> <<"M","1">>,
                         name |-> <<"M","a","i","n">>],
               departure_stop |-> [name |-> <<"P"," ","S","t">>],
               arrival_stop |-> [name |-> <<"Q"," ","S","t">>]]]
S_nodist == [html_instructions |-> <<"G","o">>]

StepPool == {S_turn, S_camel, S_bus, S_nodist}

Leg(steps) == [duration |-> [text |-> <<"5"," ","m","i","n","s">>], steps |-> steps]

DirectionsOutcomes ==
    HttpFailures
    \cup { HttpAnswers(ContentText(<<"<","h","t","m","l",">">>)) }
    \cup { HttpAnswers(ContentJson(JsonObject(d))) :
             d \in { <<>>, [routes |-> <<>>], [routes |-> << <<>> >>],
                     [routes |-> <<[legs |-> <<>>]>>],
                     [routes |-> <<[legs |-> <<[steps |-> <<S_turn>>]>>]>>] } }
    \cup { HttpAnswers(ContentJson(JsonObject([routes |-> <<[legs |-> <<Leg(steps)>>]>>]))) :
             steps \in SeqsUpTo(StepPool, MaxSteps) }

NoPlace == [name |-> <<>>, lat |-> 0, lng |-> 0]

HandleInit ==
    /\ hs_pc = "recv"
    /\ hs_body \in RequestBodies
    /\ hs_command = <<>>
    /\ hs_mode = <<>>
    /\ hs_extract = <<>>
    /\ hs_route = JsonOther("null")
    /\ hs_origin = NoPlace
    /\ hs_destination = NoPlace
    /\ hs_geo = <<>>
    /\ hs_calls = <<>>
    /\ hs_places = <<>>
    /\ hs_directions = <<>>
    /\ hs_ret = NoReturn
    /\ hs_failed = ""
    /\ hs_caught = NoExc
    /\ hs_escaped = NoExc
    /\ hs_returned = "pending"
    /\ hs_message = <<>>
    /\ hs_response = <<>>

HandleIdle ==
    /\ hs_pc = "idle"
    /\ hs_body = <<>>
    /\ hs_command = <<>>
    /\ hs_mode = <<>>
    /\ hs_extract = <<>>
    /\ hs_route = JsonOther("null")
    /\ hs_origin = NoPlace
    /\ hs_destination = NoPlace
    /\ hs_geo = <<>>
    /\ hs_calls = <<>>
    /\ hs_places = <<>>
    /\ hs_directions = <<>>
    /\ hs_ret = NoReturn
    /\ hs_failed = ""
    /\ hs_caught = NoExc
    /\ hs_escaped = NoExc
    /\ hs_returned = "pending"
    /\ hs_message = <<>>
    /\ hs_response = <<>>

\* Lines 193-198 and 216-219: classify; HELP returns None, an unknown
\* command is answered at once, a travel command enters the try block.
Receive ==
    /\ hs_pc = "recv"
    /\ LET user_input == strip(hs_body)
           cm == get_command_type(user_input)
       IN  /\ hs_command' = cm[1]
           /\ hs_mode' = cm[2]
           /\ End(IF cm[1] = L_HELP THEN ReturnNone
                  ELSE IF cm[1] \in {L_WALK, L_TRANSIT, L_DRIVE} THEN Continue("extract")
                  ELSE Reply(UNRECOGNIZED_TEXT))
    /\ UNCHANGED <<hs_body, hs_extract, hs_route, hs_origin, hs_destination, hs_geo, hs_calls,
                   hs_places, hs_directions, hs_ret>>
    /\ UNCHANGED <<sp_vars, cl_vars, st_vars>>

\* Line 200: route = extract_route(user_input)
ExtractRoute ==
    /\ hs_pc = "extract"
    /\ \E llm \in ExtractOutcomes :
           LET r == extract_route(llm)
           IN  /\ hs_calls' = Append(hs_calls, [api |-> "llm_extract", message |-> strip(hs_body),
                                                 timeout |-> None])
               /\ hs_extract' = <<[llm |-> llm, result |-> r]>>
               /\ hs_route' = IF r.raised = NoExc THEN r.value ELSE hs_route
               /\ End(IF r.raised = NoExc THEN Continue("geo_origin") ELSE Raised(r.raised))
    /\ UNCHANGED <<hs_body, hs_command, hs_mode, hs_origin, hs_destination, hs_geo,
                   hs_places, hs_directions, hs_ret>>
    /\ UNCHANGED <<sp_vars, cl_vars, st_vars>>

\* Line 201, one operand of the `or`: route[key], then the oracle.
Geocodable(stage, key, next) ==
    /\ hs_pc = stage
    /\ LET loc == subscript(hs_route, key)
       IN  IF loc.raised # NoExc
           THEN /\ End(Raised(loc.raised))
                /\ UNCHANGED <<hs_geo, hs_calls>>
           ELSE \E llm \in GeocodableOutcomes :
                    LET r == is_location_geocodable(llm)
                    IN  /\ hs_calls' = Append(hs_calls, [api |-> "llm_geocodable",
                                                          location |-> loc.value,
                                                          timeout |-> None])
                        /\ hs_geo' = Append(hs_geo, [location |-> loc.value, llm |-> llm, result |-> r])
                        /\ End(IF r.raised # NoExc THEN Raised(r.raised)
                               ELSE after_geocodable(key, r.value, next))
    /\ UNCHANGED <<hs_body, hs_command, hs_mode, hs_extract, hs_route, hs_origin, hs_destination,
                   hs_places, hs_directions, hs_ret>>
    /\ UNCHANGED <<sp_vars, cl_vars, st_vars>>

GeocodableOrigin == Geocodable("geo_origin", "origin", "geo_destination")
GeocodableDestination == Geocodable("geo_destination", "destination", "resolve_origin")

\* Lines 206 and 110: origin = resolve_place(origin_name)
ResolveOrigin ==
    /\ hs_pc = "resolve_origin"
    /\ \E http \in PlacesOutcomes :
           LET r == resolve_place(hs_route.members.origin, http)
           IN  /\ hs_calls' = Append(hs_calls, places_request(hs_route.members.origin, None, None))
               /\ hs_places' = Append(hs_places, [query |-> hs_route.members.origin,
                                                   http |-> http, result |-> r])
               /\ hs_origin' = IF r.raised = NoExc THEN r.value ELSE hs_origin
               /\ End(IF r.raised = NoExc THEN Continue("resolve_destination") ELSE Raised(r.raised))
    /\ UNCHANGED <<hs_body, hs_command, hs_mode, hs_extract, hs_route, hs_destination, hs_geo,
                   hs_directions, hs_ret>>
    /\ UNCHANGED <<sp_vars, cl_vars, st_vars>>

\* Line 111: destination = resolve_place(destination_name, lat=origin["lat"], lng=origin["lng"])
ResolveDestination ==
    /\ hs_pc = "resolve_destination"
    /\ \E http \in PlacesOutcomes :
           LET r == resolve_place(hs_route.members.destination, http)
           IN  /\ hs_calls' = Append(hs_calls,
                      places_request(hs_route.members.destination,
                                     Some(hs_origin.lat), Some(hs_origin.lng)))
               /\ hs_places' = Append(hs_places, [query |-> hs_route.members.destination,
                                                   http |-> http, result |-> r])
               /\ hs_destination' = IF r.raised = NoExc THEN r.value ELSE hs_destination
               /\ End(IF r.raised = NoExc THEN Continue("directions") ELSE Raised(r.raised))
    /\ UNCHANGED <<hs_body, hs_command, hs_mode, hs_extract, hs_route, hs_origin, hs_geo,
                   hs_directions, hs_ret>>
    /\ UNCHANGED <<sp_vars, cl_vars, st_vars>>

\* Lines 113-151 and 206-213: the directions call, the unpacking of what
\* get_directions_steps returned, the itinerary.
FetchDirections ==
    /\ hs_pc = "directions"
    /\ \E http \in DirectionsOutcomes, too_many_text \in TooManyValuesTexts :
           LET r == directions_result(http)
               u == IF r.raised = NoExc THEN unpack2(r.value, too_many_text) ELSE r
           IN  /\ hs_calls' = Append(hs_calls, directions_request(hs_origin, hs_destination, hs_mode))
               /\ hs_directions' = <<http>>
               /\ hs_ret' = IF r.raised = NoExc THEN r.value ELSE hs_ret
               /\ End(IF u.raised # NoExc THEN Raised(u.raised)
                      ELSE Reply(itinerary(hs_route.members, hs_command, u.value[1], u.value[2])))
    /\ UNCHANGED <<hs_body, hs_command, hs_mode, hs_extract, hs_route, hs_origin, hs_destination,
                   hs_geo, hs_places>>
    /\ UNCHANGED <<sp_vars, cl_vars, st_vars>>

Init == HandleInit /\ SplitIdle /\ ClassifyIdle /\ StepsIdle
Next ==
    \/ Receive
    \/ ExtractRoute
    \/ GeocodableOrigin
    \/ GeocodableDestination
    \/ ResolveOrigin
    \/ ResolveDestination
    \/ FetchDirections
Spec == Init /\ [][Next]_vars

\* -------------------------------------------------- split_sms, step by step
SplitAlphabet == {"a", "b", " ", "\n"}

SplitInit ==
    /\ sp_pc = "loop"
    /\ sp_input \in SeqsUpTo(SplitAlphabet, MaxTextLen)
    /\ sp_max \in 1..MaxChunk
    /\ sp_text = sp_input
    /\ sp_parts = <<>>
    /\ sp_cuts = <<>>

\* One iteration of `while len(text) > max_len`.
SplitLoop ==
    /\ sp_pc = "loop"
    /\ Len(sp_text) > sp_max
    /\ sp_parts' = Append(sp_parts, split_part(sp_text, sp_max))
    /\ sp_text' = split_rest(sp_text, sp_max)
    /\ sp_cuts' = Append(sp_cuts,
           [split_at |-> split_at(sp_text, sp_max),
            hard |-> rfind_newline(sp_text, sp_max) = -1,
            before |-> sp_text])
    /\ UNCHANGED <<sp_pc, sp_input, sp_max>>
    /\ UNCHANGED <<cl_vars, hs_vars, st_vars>>

\* The loop exit: parts.append(text); return parts.
SplitReturn ==
    /\ sp_pc = "loop"
    /\ Len(sp_text) <= sp_max
    /\ sp_parts' = Append(sp_parts, sp_text)
    /\ sp_pc' = "done"
    /\ UNCHANGED <<sp_input, sp_max, sp_text, sp_cuts>>
    /\ UNCHANGED <<cl_vars, hs_vars, st_vars>>

SpecSplitInit == SplitInit /\ ClassifyIdle /\ HandleIdle /\ StepsIdle
SpecSplitNext == SplitLoop \/ SplitReturn
SpecSplit == SpecSplitInit /\ [][SpecSplitNext]_vars

\* ------------------------------------------- get_command_type, one call
\* First words of a message, lowercase: the four keywords, words that
\* extend one, words that fall short of one, and others.
ClassifyWords ==
    { KW_help, KW_walk, KW_transit, KW_drive,
      <<"h","e","l","p","e","r">>, <<"w","a","l","k","i","n","g">>,
      <<"d","r","i","v","e","r">>, <<"t","r","a","n","s","i","t","s">>,
      <<"h","e","l">>, <<"w","a","l">>, <<"t","r","a","n","s">>, <<"d","r","i","v">>,
      <<"x","h","e","l","p">>, <<"f","l","y">>, <<"r","u","n","n","i","n","g">>,
      <<"1","w","a","l","k">>, <<>> }

\* What precedes and what follows the first word.
ClassifyLead == { <<>>, <<" ">>, <<"\n", " ">>, <<"\t">> }
ClassifyTail == { <<>>, <<" ">>, <<" ","f","r","o","m"," ","A">>, <<"\n","h","e","l","p">> }

\* Casings of a word: as is, all capitals, first letter capital, last letter capital.
Casings(w) ==
    { w,
      [i \in 1..Len(w) |-> upper_char(w[i])],
      [i \in 1..Len(w) |-> IF i = 1 THEN upper_char(w[i]) ELSE w[i]],
      [i \in 1..Len(w) |-> IF i = Len(w) THEN upper_char(w[i]) ELSE w[i]] }

ClassifyInit ==
    /\ cl_pc = "call"
    /\ cl_word \in ClassifyWords
    /\ cl_tail \in ClassifyTail
    /\ \E lead \in ClassifyLead, cased \in Casings(cl_word) :
           cl_message = lead \o cased \o cl_tail
    /\ cl_result = <<>>

Classify ==
    /\ cl_pc = "call"
    /\ cl_result' = get_command_type(cl_message)
    /\ cl_pc' = "done"
    /\ UNCHANGED <<cl_word, cl_tail, cl_message>>
    /\ UNCHANGED <<sp_vars, hs_vars, st_vars>>

SpecClassifyInit == ClassifyInit /\ SplitIdle /\ HandleIdle /\ StepsIdle
SpecClassifyNext == Classify
SpecClassify == SpecClassifyInit /\ [][SpecClassifyNext]_vars

\* ------------------------------- get_directions_steps, the rendering of a leg
\* Further steps a provider can send: a transit step whose line has an empty
\* short name, one whose line has no name and no vehicle, and a step whose
\* transit details are empty.
S_rail == [html_instructions |-> <<"R","a","i","l">>, distance |-> [text |-> <<"9"," ","k","m">>],
           transit_details |->
               [line |-> [vehicle |-> [type |-> <<"S","U","B","W","A","Y">>], short_name |-> <<>>,
                          name |-> <<"R","e","d"," ","L","i","n","e">>],
                departure_stop |-> [name |-> <<"A","v","e">>],
                arrival_stop |-> [name |-> <<"Z","o","o">>]]]
S_ferry == [html_instructions |-> <<"F","e","r","r","y">>, distance |-> [text |-> <<"3"," ","k","m">>],
            transit_details |->
                [line |-> [agencies |-> <<>>],
                 departure_stop |-> [name |-> <<"P","i","e","r">>],
                 arrival_stop |-> [name |-> <<"I","s","l","e">>]]]
S_onfoot == [html_instructions |-> <<"<","d","i","v",">","H","e","a","d"," ","<","b",">","e","a","s","t","<","/","b",">","<","/","d","i","v",">">>,
             distance |-> [text |-> <<"7"," ","m">>],
             transit_details |-> <<>>]

RenderPool == StepPool \cup {S_rail, S_ferry, S_onfoot}

StepsInit ==
    /\ st_pc = "call"
    /\ st_steps \in SeqsUpTo(RenderPool, MaxSteps)
    /\ st_result = <<>>

\* Lines 126-151 on a provider's answer whose first route's first leg has
\* the steps st_steps.
RenderSteps ==
    /\ st_pc = "call"
    /\ st_result' = directions_result(HttpAnswers(ContentJson(JsonObject(
                         [routes |-> <<[legs |-> <<Leg(st_steps)>>]>>]))))
    /\ st_pc' = "done"
    /\ UNCHANGED st_steps
    /\ UNCHANGED <<sp_vars, cl_vars, hs_vars>>

SpecStepsInit == StepsInit /\ SplitIdle /\ ClassifyIdle /\ HandleIdle
SpecStepsNext == RenderSteps
SpecSteps == SpecStepsInit /\ [][SpecStepsNext]_vars

\* =================================================================== claims
Contains(text, sub) ==
    \E i \in 0..(Len(text) - Len(sub)) : SubSeq(text, i + 1, i + Len(sub)) = sub

RemoveWhitespace(s) == SelectSeq(s, LAMBDA c : c \notin Whitespace)

Done == hs_pc = "done"
TravelLabels == {L_WALK, L_TRANSIT, L_DRIVE}

IsErrorText(m) == startswith(m, ERROR_PREFIX)
IsErrorLine(m) == IsErrorText(m) /\ ~Contains(m, <<"\n">>)
IsItinerary(m) ==
    /\ startswith(m, T_From)
    /\ Contains(m, <<"\n">> \o T_To)
    /\ Contains(m, <<"\n">> \o T_Mode)
    /\ Contains(m, <<"\n">> \o T_Duration)
\* The Help text lists the three command verbs.
IsHelpText(m) == Contains(m, L_WALK) /\ Contains(m, L_TRANSIT) /\ Contains(m, L_DRIVE)

CallsOf(apis) == {i \in 1..Len(hs_calls) : hs_calls[i].api \in apis}

\* C1: every request ends with exactly one reply body, which is the Help
\* text, the Unrecognized-command text, the rejection text, an error text or
\* an itinerary; HELP is answered with the Help text and UNKNOWN with the
\* Unrecognized-command text.  (The claim as stated; the code violates it.)
Ctr_C1_OneReplyPerRequest ==
    Done =>
        /\ hs_returned = "response"
        /\ \/ IsHelpText(hs_message)
           \/ hs_message = UNRECOGNIZED_TEXT
           \/ hs_message = REJECTION_TEXT
           \/ IsErrorText(hs_message)
           \/ IsItinerary(hs_message)
        /\ hs_command = L_HELP => IsHelpText(hs_message)
        /\ hs_command = L_UNKNOWN => hs_message = UNRECOGNIZED_TEXT

\* C2: for a WALK/TRANSIT/DRIVE request no stage failure leaves handle_sms
\* as an exception: every failure becomes a plain-text reply.  (The claim as
\* stated; the code violates it.)
Ctr_C2_NoFailureEscapes ==
    (Done /\ hs_command \in TravelLabels) =>
        /\ hs_escaped = NoExc
        /\ hs_returned = "response"

\* The first character of the trimmed text is a "y" in either case.
BeginsWithY(text) ==
    LET keep == {i \in 1..Len(text) : text[i] \notin Whitespace}
    IN  keep # {} /\ text[CHOOSE i \in keep : \A j \in keep : i <= j] \in {"y", "Y"}

\* C3: is_location_geocodable raises nothing, and returns true exactly when
\* the model call succeeded and the answer, trimmed and lowercased, begins
\* with "y"; every other answer and every failure of the call gives false.
Thm_C3_GeocodableFailsClosed ==
    \A i \in 1..Len(hs_geo) :
        /\ hs_geo[i].result.raised = NoExc
        /\ hs_geo[i].result.value \in BOOLEAN
        /\ hs_geo[i].result.value <=>
               /\ hs_geo[i].llm.raised = NoExc
               /\ hs_geo[i].llm.content.kind = "text"
               /\ BeginsWithY(hs_geo[i].llm.content.text)

\* The origin was accepted on " Yes.\n", the destination's call timed out.
Wit_C3_AcceptedThenTimeout ==
    /\ Len(hs_geo) = 2
    /\ hs_geo[1].llm.content.text = <<" ","Y","e","s",".","\n">>
    /\ hs_geo[1].result = Ok(TRUE)
    /\ hs_geo[2].llm.raised.type = "APITimeoutError"
    /\ hs_geo[2].result = Ok(FALSE)

\* The oracle answered "no", or its call timed out.
SaysNoOrTimesOut(g) ==
    \/ g.llm.raised.type = "APITimeoutError"
    \/ /\ g.llm.raised = NoExc
       /\ g.llm.content.kind = "text"
       /\ lower(strip(g.llm.content.text)) = <<"n","o">>

\* C4: when the oracle answers "no" or times out for the origin or for the
\* destination, the reply is the rejection text and no place-search and no
\* directions call is made; a place-search or directions call is only made
\* after the oracle accepted the origin and the destination of the route.
Thm_C4_RejectionBeforeResolution ==
    /\ (\E i \in 1..Len(hs_geo) : SaysNoOrTimesOut(hs_geo[i])) =>
           /\ Done
           /\ hs_returned = "response"
           /\ hs_message = REJECTION_TEXT
           /\ CallsOf({"places", "directions"}) = {}
    /\ CallsOf({"places", "directions"}) # {} =>
           /\ Len(hs_geo) = 2
           /\ hs_geo[1].location = hs_route.members.origin
           /\ hs_geo[2].location = hs_route.members.destination
           /\ hs_geo[1].result = Ok(TRUE)
           /\ hs_geo[2].result = Ok(TRUE)
           /\ \A i \in CallsOf({"llm_geocodable"}), j \in CallsOf({"places", "directions"}) : i < j

\* The origin was accepted and the destination's call timed out: rejected.
Wit_C4_DestinationRejected ==
    /\ Done
    /\ Len(hs_geo) = 2
    /\ hs_geo[1].result = Ok(TRUE)
    /\ hs_geo[2].llm.raised.type = "APITimeoutError"
    /\ hs_message = REJECTION_TEXT

\* The stages whose remote calls come after the given stage's.
LaterApis(stage) ==
    CASE stage = "extract" -> {"llm_geocodable", "places", "directions"}
      [] stage \in {"geo_origin", "geo_destination"} -> {"places", "directions"}
      [] stage \in {"resolve_origin", "resolve_destination"} -> {"directions"}
      [] OTHER -> {}

\* C5: a failure at ExtractRoute, ResolveOrigin, ResolveDestination or
\* FetchDirections short-circuits the rest: no call of a later stage is
\* issued, and the reply is a single error line with none of the itinerary
\* fields.  (The claim as stated; the code violates it.)
Ctr_C5_FailureShortCircuits ==
    (Done /\ hs_failed \in {"extract", "resolve_origin", "resolve_destination", "directions"}) =>
        /\ CallsOf(LaterApis(hs_failed)) = {}
        /\ hs_failed = "resolve_origin" => Cardinality(CallsOf({"places"})) = 1
        /\ hs_returned = "response"
        /\ IsErrorLine(hs_message)
        /\ ~Contains(hs_message, T_From)
        /\ ~Contains(hs_message, T_To)
        /\ ~Contains(hs_message, T_Mode)
        /\ ~Contains(hs_message, T_Duration)

\* C6: on an empty route set get_directions_steps returns the "no route
\* found" sentinel, and handle_sms takes it as a valid result: no exception
\* is raised or caught and the reply is no error line.  (The claim as
\* stated; the code violates it.)
Ctr_C6_NoRouteIsNoFailure ==
    hs_ret = ReturnStr(NO_ROUTE_TEXT) =>
        /\ hs_caught = NoExc
        /\ hs_escaped = NoExc
        /\ hs_returned = "response"
        /\ ~IsErrorText(hs_message)

\* C7: every chunk split_sms returns is at most max_len long, the chunks of
\* a hard break and the last chunk included.
Thm_C7_ChunkLength ==
    /\ \A i \in 1..Len(sp_parts) : Len(sp_parts[i]) <= sp_max
    /\ sp_pc = "done" => sp_parts = split_sms(sp_input, sp_max)

\* A run with a hard break, a chunk of exactly max_len and a last chunk of
\* exactly max_len.
Wit_C7_HardBreakAtLimit ==
    /\ sp_pc = "done"
    /\ \E i \in 1..Len(sp_cuts) : sp_cuts[i].hard
    /\ Len(sp_parts) >= 2
    /\ Len(sp_parts[1]) = sp_max
    /\ Len(sp_parts[Len(sp_parts)]) = sp_max

\* C8: split_sms loses and reorders nothing but whitespace trimmed at cut
\* points: every chunk is a piece of the text, and with all whitespace
\* deleted the concatenated chunks (and, while the loop runs, the remaining
\* text) equal the text.
Thm_C8_ContentPreserved ==
    sp_pc \in {"loop", "done"} =>
        /\ \A i \in 1..Len(sp_parts) : Contains(sp_input, sp_parts[i])
        /\ RemoveWhitespace(concat(sp_parts) \o (IF sp_pc = "loop" THEN sp_text ELSE <<>>))
               = RemoveWhitespace(sp_input)

\* A finished run of several chunks that trimmed whitespace away, on a text
\* with both letters.
Wit_C8_TrimmedAtCut ==
    /\ sp_pc = "done"
    /\ Len(sp_parts) >= 2
    /\ Len(concat(sp_parts)) < Len(sp_input)
    /\ Contains(sp_input, <<"a">>)
    /\ Contains(sp_input, <<"b">>)

\* The label the message's construction calls for.
ExpectedLabel ==
    CASE cl_word \in {KW_help, <<"h","e","l","p","e","r">>} -> L_HELP
      [] cl_word \in {KW_walk, <<"w","a","l","k","i","n","g">>} -> L_WALK
      [] cl_word \in {KW_transit, <<"t","r","a","n","s","i","t","s">>} -> L_TRANSIT
      [] cl_word \in {KW_drive, <<"d","r","i","v","e","r">>} -> L_DRIVE
      [] cl_word = <<>> /\ cl_tail = <<"\n","h","e","l","p">> -> L_HELP
      [] OTHER -> L_UNKNOWN

ExpectedMode ==
    CASE ExpectedLabel = L_WALK -> M_walking
      [] ExpectedLabel = L_TRANSIT -> M_transit
      [] ExpectedLabel = L_DRIVE -> M_driving
      [] OTHER -> <<>>

IsRoutePairJson(content) ==
    /\ content.kind = "json"
    /\ content.value.type = "object"
    /\ {"origin", "destination"} \subseteq DOMAIN content.value.members

\* C10: extract_route returns the model's origin and destination when the
\* output is a JSON object with both keys, and fails with the "could not be
\* parsed as JSON" error for every other output.  (The claim as stated; the
\* code violates it.)
Ctr_C10_ExtractRouteValidates ==
    \A i \in 1..Len(hs_extract) :
        hs_extract[i].llm.raised = NoExc =>
            IF IsRoutePairJson(hs_extract[i].llm.content)
            THEN /\ hs_extract[i].result.raised = NoExc
                 /\ hs_extract[i].result.value.members.origin
                        = hs_extract[i].llm.content.value.members.origin
                 /\ hs_extract[i].result.value.members.destination
                        = hs_extract[i].llm.content.value.members.destination
            ELSE hs_extract[i].result.raised = Exc("ValueError", PARSE_ERROR_TEXT)

\* The provider answered with a JSON object that offers no usable first
\* candidate: no places key, an empty list, or a first candidate without its
\* display name or its location.
NoUsableCandidate(http) ==
    /\ http.raised = NoExc
    /\ http.content.kind = "json"
    /\ http.content.value.type = "object"
    /\ LET data == http.content.value.members
       IN  \/ "places" \notin DOMAIN data
           \/ data.places = <<>>
           \/ "displayName" \notin DOMAIN data.places[1]
           \/ "location" \notin DOMAIN data.places[1]

\* C11: whenever the provider's response has no candidates or a malformed
\* first candidate, resolve_place fails with "Could not resolve place:
\* <query>" and with no other kind of failure.  (The claim as stated; the
\* code violates it.)
Ctr_C11_ResolutionErrorOnly ==
    \A i \in 1..Len(hs_places) :
        NoUsableCandidate(hs_places[i].http) =>
            hs_places[i].result.raised
                = Exc("ValueError", RESOLVE_ERROR_PREFIX \o hs_places[i].query)

\* The provider answered with a non-empty candidate list whose first
\* candidate carries a location.
FirstCandidateLocated(http) ==
    /\ http.raised = NoExc
    /\ http.content.kind = "json"
    /\ http.content.value.type = "object"
    /\ "places" \in DOMAIN http.content.value.members
    /\ http.content.value.members.places # <<>>
    /\ "location" \in DOMAIN http.content.value.members.places[1]

\* C12: for every response with a non-empty candidate list, resolve_place
\* returns a place with the latitude and longitude of the first candidate,
\* also for a candidate that carries only a location.  (The claim as stated;
\* the code violates it.)
Ctr_C12_FirstCandidateWins ==
    \A i \in 1..Len(hs_places) :
        FirstCandidateLocated(hs_places[i].http) =>
            LET first == hs_places[i].http.content.value.members.places[1]
            IN  /\ hs_places[i].result.raised = NoExc
                /\ hs_places[i].result.value.lat = first.location.latitude
                /\ hs_places[i].result.value.lng = first.location.longitude

PlacesCalls == SelectSeq(hs_calls, LAMBDA c : c.api = "places")

\* C13: the origin is resolved first and without a location bias; the
\* destination is resolved only after the origin was resolved, with a bias
\* circle centred on exactly the origin's resolved latitude and longitude,
\* whatever their values; when the origin's resolution fails there is no
\* destination search and no directions call.
Thm_C13_BiasFromOrigin ==
    /\ Len(PlacesCalls) <= 2
    /\ Len(PlacesCalls) = Len(hs_places)
    /\ Len(PlacesCalls) >= 1 =>
           /\ PlacesCalls[1].query = hs_route.members.origin
           /\ ~PlacesCalls[1].bias.present
    /\ Len(PlacesCalls) = 2 =>
           /\ hs_places[1].result.raised = NoExc
           /\ PlacesCalls[2].query = hs_route.members.destination
           /\ PlacesCalls[2].bias.present
           /\ PlacesCalls[2].bias.latitude = hs_places[1].result.value.lat
           /\ PlacesCalls[2].bias.longitude = hs_places[1].result.value.lng
           /\ PlacesCalls[2].bias.latitude
                  = hs_places[1].http.content.value.members.places[1].location.latitude
           /\ PlacesCalls[2].bias.longitude
                  = hs_places[1].http.content.value.members.places[1].location.longitude
    /\ (Len(hs_places) >= 1 /\ hs_places[1].result.raised # NoExc) =>
           /\ Len(PlacesCalls) = 1
           /\ CallsOf({"directions"}) = {}
    /\ \A i \in CallsOf({"directions"}) : Len(PlacesCalls) = 2 /\ i = Len(hs_calls)

\* The origin resolved to latitude 0, longitude 0, and the destination search
\* was issued with the bias circle centred there.
Wit_C13_BiasAtZero ==
    /\ Len(PlacesCalls) = 2
    /\ hs_places[1].result.raised = NoExc
    /\ hs_places[1].result.value.lat = 0
    /\ hs_places[1].result.value.lng = 0
    /\ PlacesCalls[2].bias.present
    /\ PlacesCalls[2].bias.latitude = 0

\* The lines of a text: what str.split("\n") gives, and no line for "".
RECURSIVE SplitLines(_)
SplitLines(text) ==
    LET nl == {i \in 1..Len(text) : text[i] = "\n"}
    IN  IF nl = {} THEN <<text>>
        ELSE LET i == CHOOSE j \in nl : \A k \in nl : j <= k
             IN  <<SubSeq(text, 1, i - 1)>> \o SplitLines(SubSeq(text, i + 1, Len(text)))

RenderedLines(text) == IF text = <<>> THEN <<>> ELSE SplitLines(text)

endswith(s, suffix) ==
    Len(s) >= Len(suffix) /\ SubSeq(s, Len(s) - Len(suffix) + 1, Len(s)) = suffix

\* What tells the line of one step from the lines of the others: the stop a
\* transit step arrives at, the distance of any other step.
LineMark(step) ==
    IF "transit_details" \in DOMAIN step /\ step.transit_details # <<>>
    THEN T_to \o step.transit_details.arrival_stop.name
    ELSE <<"(">> \o step.distance.text \o <<")">>

Rendered == st_pc = "done" /\ st_result.raised = NoExc

\* C14: of a leg with n steps that get_directions_steps renders, the steps
\* text has exactly n lines joined by newlines; line i begins with the
\* number i and ". " and comes from step i, for transit steps and the others
\* alike: no step is dropped, duplicated, merged or reordered.
Thm_C14_OneNumberedLinePerStep ==
    Rendered =>
        LET lines == RenderedLines(st_result.value.items[2])
        IN  /\ st_result.value.kind = "tuple"
            /\ Len(lines) = Len(st_steps)
            /\ \A i \in 1..Len(lines) :
                   /\ startswith(lines[i], <<Digits[i + 1], ".", " ">>)
                   /\ endswith(lines[i], LineMark(st_steps[i]))

\* A transit step followed by a walking step, rendered as two lines.
Wit_C14_TransitThenWalk ==
    /\ Rendered
    /\ st_steps = <<S_bus, S_turn>>
    /\ Len(RenderedLines(st_result.value.items[2])) = 2

\* The line each step of the pool is to give, after its number.
ExpectedRendering(step) ==
    CASE
         step = S_turn -> <<"T","u","r","n"," ","l","e","f","t"," ","(","5"," ","m",")">>
      [] step = S_camel -> <<"N","o","r","t","h","."," ","T","o","l","l"," ","(","1"," ","k","m",")">>
      [] step = S_onfoot -> <<"H","e","a","d"," ","e","a","s","t"," ","(","7"," ","m",")">>
      [] step = S_bus -> <<"T","a","k","e"," ","B","U","S"," ","M","1"," ","f","r","o","m"," ","P"," ","S","t"," ","t","o"," ","Q"," ","S","t">>
      [] step = S_rail -> <<"T","a","k","e"," ","S","U","B","W","A","Y"," ","R","e","d"," ","L","i","n","e"," ","f","r","o","m"," ","A","v","e"," ","t","o"," ","Z","o","o">>
      [] step = S_ferry -> <<"T","a","k","e"," ","T","r","a","n","s","i","t"," ","U","n","k","n","o","w","n"," ","l","i","n","e"," ","f","r","o","m"," ","P","i","e","r"," ","t","o"," ","I","s","l","e">>

\* C19: a step with transit details is rendered as "<n>. Take <vehicle type>
\* <line> from <boarding stop> to <alighting stop>", without its generic
\* instruction and distance, the line being the short name if present and
\* non-empty, else the long name, else "Unknown line"; any other step is
\* rendered as its instruction without markup tags (a sentence break where a
\* capital follows a lowercase letter), followed by its distance text.
Thm_C19_StepRendering ==
    Rendered =>
        LET lines == RenderedLines(st_result.value.items[2])
        IN  \A i \in 1..Len(st_steps) :
                /\ i <= Len(lines)
                /\ lines[i] = <<Digits[i + 1], ".", " ">> \o ExpectedRendering(st_steps[i])

\* A transit step whose line falls back to its long name, and a step on foot
\* whose instruction came with markup.
Wit_C19_LongNameAndMarkup ==
    /\ Rendered
    /\ st_steps = <<S_rail, S_onfoot>>

\* Entity escaping of element text: "&", "<" and ">" become entities.
RECURSIVE escape(_)
escape(s) ==
    IF s = <<>> THEN <<>>
    ELSE IF Len(s) = 1
    THEN CASE s[1] = "&" -> <<"&","a","m","p",";">>
           [] s[1] = "<" -> <<"&","l","t",";">>
           [] s[1] = ">" -> <<"&","g","t",";">>
           [] OTHER -> s
    ELSE escape(SubSeq(s, 1, Len(s) \div 2)) \o escape(SubSeq(s, Len(s) \div 2 + 1, Len(s)))

RECURSIVE EscapedElements(_)
EscapedElements(chunks) ==
    IF chunks = <<>> THEN <<>>
    ELSE X_Message \o escape(Head(chunks)) \o X_MessageEnd \o EscapedElements(Tail(chunks))

\* C15: the reply of respond_with_sms has one <Message> element per chunk, in
\* chunk order, and each chunk's text is entity-escaped: no raw "&", "<" or
\* ">" of the message text stands inside a <Message> element.  (The claim as
\* stated; the code violates it.)
Ctr_C15_ChunksEscaped ==
    hs_returned = "response" =>
        hs_response = X_Response \o EscapedElements(split_sms(hs_message, SMS_MAX_LEN))
                          \o X_ResponseEnd

\* C16: no remote call is retried.  One request issues at most one
\* route-extraction call, one geocodability call per place, one place search
\* per place and one directions call, in that order, and a call that failed
\* is the last call of the request.
Thm_C16_NoRetry ==
    /\ Cardinality(CallsOf({"llm_extract"})) <= 1
    /\ Cardinality(CallsOf({"llm_geocodable"})) = Len(hs_geo)
    /\ Len(hs_geo) <= 2
    /\ \A i \in 1..Len(hs_geo) :
           /\ hs_geo[i].location = hs_route.members[IF i = 1 THEN "origin" ELSE "destination"]
           /\ hs_calls[1 + i].api = "llm_geocodable"
           /\ (hs_geo[i].llm.raised # NoExc \/ ~hs_geo[i].result.value) => Len(hs_calls) = 1 + i
    /\ Cardinality(CallsOf({"places"})) = Len(hs_places)
    /\ Len(hs_places) <= 2
    /\ \A i \in 1..Len(hs_places) :
           /\ hs_places[i].query = hs_route.members[IF i = 1 THEN "origin" ELSE "destination"]
           /\ hs_calls[3 + i].api = "places"
           /\ hs_places[i].result.raised # NoExc => Len(hs_calls) = 3 + i
    /\ Cardinality(CallsOf({"directions"})) = Len(hs_directions)
    /\ Len(hs_directions) <= 1
    /\ \A i \in CallsOf({"directions"}) : i = 6 /\ Len(hs_calls) = 6
    /\ \A i \in CallsOf({"llm_extract"}) :
           /\ i = 1
           /\ hs_extract[1].result.raised # NoExc => Len(hs_calls) = 1

\* The place search for the origin timed out, and no call followed it.
Wit_C16_TimedOutOnce ==
    /\ Done
    /\ Len(hs_places) = 1
    /\ hs_places[1].http.raised = Exc("Timeout", <<>>)
    /\ hs_calls[Len(hs_calls)].api = "places"
    /\ Len(hs_calls) = 4

\* C17: every network call (the route-extraction call, the geocodability
\* calls, the place searches, the directions call) is issued with a bounded
\* timeout.  (The claim as stated; the code violates it.)
Ctr_C17_EveryCallTimed ==
    \A i \in 1..Len(hs_calls) :
        /\ hs_calls[i].timeout.some
        /\ hs_calls[i].timeout.v > 0

\* The positions (counted from 0) of the newlines of a text at or before
\* position max_len.
NewlinesUpTo(text, max_len) ==
    {i \in 0..max_len : i < Len(text) /\ text[i + 1] = "\n"}

\* C18: while the remaining text is longer than max_len, split_sms cuts at
\* the last newline at or before position max_len of the remaining text, and
\* cuts hard at exactly max_len only when there is no such newline: no chunk is
\* cut at an earlier newline when a later one at or before the limit is
\* available.  (The claim as stated; the code violates it.)
Ctr_C18_CutAtLastNewlineUpToLimit ==
    \A i \in 1..Len(sp_cuts) :
        LET nl == NewlinesUpTo(sp_cuts[i].before, sp_max)
        IN  IF nl = {} THEN sp_cuts[i].hard /\ sp_cuts[i].split_at = sp_max
            ELSE sp_cuts[i].split_at = Max(nl)

\* What remained after the i-th iteration of the loop.
RestAfter(i) == IF i < Len(sp_cuts) THEN sp_cuts[i + 1].before ELSE sp_text

\* C20: for every text and positive max_len the loop of split_sms ends and
\* at least one chunk is returned: every iteration leaves a strictly shorter
\* remaining text, also when it cuts at a newline at position 0, so there are
\* at most len(text) iterations; the final remainder is always appended, and
\* the empty text gives the single chunk "".
Thm_C20_LoopTerminates ==
    sp_pc \in {"loop", "done"} =>
        /\ \A i \in 1..Len(sp_cuts) : Len(RestAfter(i)) < Len(sp_cuts[i].before)
        /\ Len(sp_cuts) <= Len(sp_input)
        /\ Len(sp_parts) = Len(sp_cuts) + (IF sp_pc = "done" THEN 1 ELSE 0)
        /\ sp_pc = "done" =>
               /\ Len(sp_parts) >= 1
               /\ sp_parts[Len(sp_parts)] = sp_text
               /\ Len(sp_text) <= sp_max
               /\ sp_input = <<>> => sp_parts = << <<>> >>

\* A run that cut at a newline at position 0 of the text and returned.
Wit_C20_NewlineAtZero ==
    /\ sp_pc = "done"
    /\ \E i \in 1..Len(sp_cuts) :
           /\ sp_cuts[i].split_at = 0
           /\ ~sp_cuts[i].hard
           /\ sp_cuts[i].before[1] = "\n"
    /\ Len(sp_parts) >= 2

====
